---- MODULE Spec2Model ----
(***************************************************************************)
(* Model of the Blockscout verification plugin (src/verify.js).            *)
(*                                                                         *)
(* One invocation of module.exports(config): parseConfig, then the         *)
(* for-loop over the requested contract names, each contract driven        *)
(* through getArtifact, the existing-verification check, the submission    *)
(* (constructor fetch, source merge, proxy lookup, library linking, POST)  *)
(* and the confirmation poll, then the final summary.  The explorer, the   *)
(* file system and the chain node are the environment: every answer they   *)
(* can give is drawn nondeterministically at the step that reads it.       *)
(*                                                                         *)
(* requests and outcomes are history variables: requests holds what the    *)
(* current turn of the for-loop has issued so far (axios.get, axios.post,  *)
(* the registry lookup, delay), each tagged with the index of the entry it *)
(* was issued for, and starts empty at the top of every turn; outcomes     *)
(* holds, per processed entry, the branch of the loop body that ended it.  *)
(***************************************************************************)
EXTENDS Integers, Sequences, FiniteSets, TLC

\* ------------------------------------------------------------ constants.js

OK == "1"
KO == "0"

FAILED == "Fail - Unable to verify"
NOT_VERIFIED == "Fail - Unable to verify"
SUCCESS == "Pass - Verified"
PENDING == "Pending in queue"
ALREADY_VERIFIED == "Contract source code already verified"
NOT_DEPLOYED == "Contract not deployed in the network"

\* ------------------------------------------------------------ bounds

\* Longest list of contract names given on the command line.
MaxContracts == 2
\* Largest linked-library map an artifact carries.
MaxLinks == 6
\* Longest preamble text, in characters.
MaxPreamble == 4

\* ------------------------------------------------------------ program constants

\* Mutant of retries: the poll loop is never entered.
retries_None == 5 - 5

\* Mutant of retries: one more turn of the poll loop.
retries_OffByOne == 5 + 1

\* checkVerificationStatus: const retries = 5
retries == 5
\* sendVerifyRequest: enforceOrThrowError(i < 5, ...)
LibraryLimit == 5

\* ------------------------------------------------------------ inputs

Names == {"A", "B"}

RECURSIVE SeqsUpTo(_, _)
SeqsUpTo(S, n) ==
  IF n = 0 THEN {<<>>}
  ELSE LET shorter == SeqsUpTo(S, n - 1)
       IN shorter \cup {Append(s, x) : s \in {t \in shorter : Len(t) = n - 1}, x \in S}

\* config._ : the command word followed by the requested names.
ArgLists ==
  {<<"verify">> \o s : s \in SeqsUpTo(Names, MaxContracts)} \cup {<<"verify", "all">>}

\* Texts are sequences of characters.  config.verify.preamble: absent (or
\* empty, falsy alike) is the empty text.
Chars == {"*", "/", "a"}
Preambles == SeqsUpTo(Chars, MaxPreamble)
NoPreamble == <<>>

\* What sol-merger's merge returns for the source file.
MergedFile == <<"c">>

Configs == [blockscoutUrl : BOOLEAN, args : ArgLists, preamble : {NoPreamble}]

\* A build artifact as getArtifact finds it on disk: the file may be absent;
\* networks[networkId] may be absent ("none"), present without an address
\* ("noaddress") or a deployment record ("deployed") with a links map.
LinkCounts == {0, LibraryLimit, MaxLinks}
NoArtifact == [exists |-> FALSE, network |-> "none", links |-> 0]
Artifacts ==
  {[exists |-> FALSE, network |-> "none", links |-> 0]}
    \cup [exists : {TRUE}, network : {"none", "noaddress"}, links : {0}]
    \cup [exists : {TRUE}, network : {"deployed"}, links : LinkCounts]

\* A directory entry of the build directory, as readdirSync / lstatSync see
\* it: a file, or a directory with the entries below it.
DirEntry(n, x, d) == [name |-> n, ext |-> x, isDir |-> d, children |-> <<>>]
SubDir(n, entries) == [name |-> n, ext |-> "", isDir |-> TRUE, children |-> entries]
NoDir == [exists |-> FALSE, files |-> <<>>]
BuildDirs ==
  { NoDir,
    [exists |-> TRUE, files |-> <<DirEntry("A", ".json", FALSE), DirEntry("B", ".txt", FALSE)>>],
    [exists |-> TRUE, files |-> <<DirEntry("B", ".json", FALSE), DirEntry("sub", "", TRUE),
                                  DirEntry("A", ".json", FALSE)>>],
    [exists |-> TRUE, files |-> <<DirEntry("B", ".json", FALSE),
                                  SubDir("sub", <<DirEntry("A", ".json", FALSE),
                                                  DirEntry("notes", ".txt", FALSE)>>)>>] }

\* Answers of the explorer to the getsourcecode GET.
StatusAnswers == {"verified", "unverified", "error"}
\* Answers to the txlist GET.
TxAnswers == {"reject", "ko", "ok", "okEmpty"}
\* Answers to the verify POST: rejected, no body, or an envelope {status, result}.
PostResults == {ALREADY_VERIFIED, "abc", "Invalid compiler version"}
PostAnswers ==
  {[kind |-> "reject", status |-> KO, result |-> ""],
   [kind |-> "nodata", status |-> KO, result |-> ""]}
    \cup [kind : {"data"}, status : {OK, KO}, result : PostResults]

\* ------------------------------------------------------------ messages

MsgNoArtifact == "Could not find artifact"
MsgNoInstance == "No instance of contract found for network id"
MsgNoSource == "Could not find source file"
MsgConnect == "Failed to connect to Blockscout API at url"
MsgStatus == "Failed to get verification status from Blockscout API at url"
MsgTxReject == "Failed Fetching constructor values from Blockscout API at url"
MsgTxKo == "Failed to fetch constructor arguments"
MsgLibraries == "Can not link more than 5 libraries with Blockscout API"
MsgTransport == "Network Error"
MsgTypeError == "TypeError"
MsgNoSupport == "Blockscout has no support for network"
MsgNoNames == "No contract name(s) specified"
MsgFailedSome == "Failed to verify contract(s)"

VARIABLES
  buildDir,             \* history: the build directory as getAllContractFiles found it
  mergedSource,         \* sendVerifyRequest: mergedSource
  config,               \* the configuration handed to module.exports
  pc,                   \* position of the invocation
  contractNames,        \* the names the loop iterates over
  pos,                  \* index of the entry being processed (1-based)
  artifact,             \* artifact of the entry being processed
  phase,                \* caller of checkVerificationStatus: "precheck" | "confirm"
  counter,              \* checkVerificationStatus: counter
  verStatus,            \* last value returned by checkVerificationStatus / verifyContract
  e,                    \* the error thrown inside the try block
  failedContracts,
  notDeployedContracts,
  deployedContracts,
  result,               \* how the invocation ended: "" while running
  requests,             \* history: requests and delays of the current turn, in order
  outcomes              \* history: per processed entry, how it ended

vars == <<buildDir, mergedSource, config, pc, contractNames, pos, artifact, phase, counter, verStatus, e,
          failedContracts, notDeployedContracts, deployedContracts, result,
          requests, outcomes>>

\* ------------------------------------------------------------ util.js

\* enforce(condition, message): goes on when the condition holds; otherwise
\* reports the message and ends the process.
enforce(condition) == condition

\* enforceOrThrowError(condition, message): goes on when the condition holds;
\* otherwise throws Error(message).
enforceOrThrowError(condition) == condition

\* enforceOrThrowWarn(condition, message): returns whether the condition
\* holds, warning with the message when it does not.
enforceOrThrowWarn(condition) == condition

\* ------------------------------------------------------------ helpers

Request(kind, answer, status, res) ==
  [entry |-> pos, kind |-> kind, phase |-> phase, answer |-> answer,
   status |-> status, result |-> res]

Issue(kind, answer) == requests' = Append(requests, Request(kind, answer, "", ""))

Outcome(kind, msg) == [name |-> contractNames[pos], outcome |-> kind, error |-> msg]

\* A throw inside the try block of the loop body: control goes to the catch.
Throw(msg) == pc' = "catch" /\ e' = msg

\* Mutant of NextContract: the loop does not move on to the next name.
NextContract_NoAdvance(kind, msg) ==
  /\ outcomes' = Append(outcomes, Outcome(kind, msg))
  /\ pos' = pos
  /\ pc' = "loop"

\* The bottom of the loop body: on to the next name.
NextContract(kind, msg) ==
  /\ outcomes' = Append(outcomes, Outcome(kind, msg))
  /\ pos' = pos + 1
  /\ pc' = "loop"

\* Mutant of parseConfig: the explorer URL is not checked.
parseConfig_NoUrlCheck(cfg) ==
  IF ~enforce(Len(cfg.args) > 1) THEN MsgNoNames ELSE ""

\* parseConfig: "" when the options are returned, else the message of the
\* enforce that ended the process.
parseConfig(cfg) ==
  IF ~enforce(cfg.blockscoutUrl) THEN MsgNoSupport
  ELSE IF ~enforce(Len(cfg.args) > 1) THEN MsgNoNames
  ELSE ""

\* config._.slice(1)
Slice1(args) == IF Len(args) = 0 THEN <<>> ELSE Tail(args)

Includes(s, x) == \E i \in 1..Len(s) : s[i] = x

\* fromDir(folder, '.json'): the names of the files of the folder with the
\* extension.  For a sub-directory the code calls fromDir again but drops
\* what the call returns, so nothing below the folder is added.
IsArtifactFile(f) == ~f.isDir /\ f.ext = ".json"

RECURSIVE fromDir(_)
fromDir(files) ==
  IF files = <<>> THEN <<>>
  ELSE IF IsArtifactFile(Head(files))
       THEN <<Head(files).name>> \o fromDir(Tail(files))
       ELSE fromDir(Tail(files))

getAllContractFiles(dir) == IF ~dir.exists THEN <<>> ELSE fromDir(dir.files)

\* fetchMergedSource, line 202: preamble.replace(/\*+\//g, '').  The match the
\* pattern has at position i of the text: the longest run of stars from i,
\* then a slash; giving back stars of the run leaves a star where the slash
\* must be, so there is no other match at i.
RECURSIVE StarRun(_, _)
StarRun(s, i) ==
  IF i <= Len(s) /\ s[i] = "*" THEN 1 + StarRun(s, i + 1) ELSE 0

\* Mutant of MatchLen: the pattern is /\*\//g, one star only.
MatchLen_OneStar(s, i) ==
  IF s[i] = "*" /\ i + 1 <= Len(s) /\ s[i + 1] = "/" THEN 2 ELSE 0

\* The length of the match at i, 0 when there is none.
MatchLen(s, i) ==
  LET k == StarRun(s, i)
  IN IF k >= 1 /\ i + k <= Len(s) /\ s[i + k] = "/" THEN k + 1 ELSE 0

\* The global replace: matches are looked for from left to right, each match
\* is dropped and the search goes on behind it.
RECURSIVE StripFrom(_, _)
StripFrom(s, i) ==
  IF i > Len(s) THEN <<>>
  ELSE IF MatchLen(s, i) > 0 THEN StripFrom(s, i + MatchLen(s, i))
  ELSE <<s[i]>> \o StripFrom(s, i + 1)

StripTerminators(s) == StripFrom(s, 1)

\* fetchMergedSource, line 203: `/**\n${preamble}\n*/\n\n${mergedSource}`
PreambleOpen == <<"/", "*", "*", "\n">>
PreambleClose == <<"\n", "*", "/", "\n", "\n">>

\* fetchMergedSource, lines 199-205: the text it returns.
fetchMergedSource(preamble) ==
  IF preamble # <<>>
  THEN PreambleOpen \o StripTerminators(preamble) \o PreambleClose \o MergedFile
  ELSE MergedFile

\* Mutant of HasInstance: the address of the networks entry is not looked at.
HasInstance_AddressUnchecked(art) == art.network \in {"noaddress", "deployed"}

\* module.exports, line 30: artifact.networks && networks[id] && networks[id].address
HasInstance(art) == art.network = "deployed"

\* verifyContract, line 124: artifact.networks && artifact.networks[id]
HasNetworkEntry(art) == art.network \in {"noaddress", "deployed"}

\* checkVerificationStatus, line 218: 'SourceCode' in result[0] && SourceCode.length > 0
SourceVerified(ans) == ans = "verified"

\* Mutant of TxOk: the status of the answer is not looked at.
TxOk_Unchecked(ans) == ans # "reject"

\* fetchConstructorValues, line 188: res.data && res.data.status === RequestStatus.OK
TxOk(ans) == ans \in {"ok", "okEmpty"}

\* Mutant of LinkAllowed: the comparison is off by one.
LinkAllowed_OffByOne(i) == i <= LibraryLimit

\* sendVerifyRequest, line 164: the condition enforced for library number i (from 0)
LinkAllowed(i) == i < LibraryLimit

\* Mutant of IsAlreadyVerified: compared with the wrong status constant.
IsAlreadyVerified_WrongConstant(status) == status = SUCCESS

\* module.exports, line 43
IsAlreadyVerified(status) == status = ALREADY_VERIFIED

\* Mutant of StatusOk: any status of the envelope is taken.
StatusOk_Unchecked(ans) == ans.status \in {OK, KO}

\* verifyContract, line 135: res.data.status === RequestStatus.OK
StatusOk(ans) == ans.status = OK

\* Mutant of IsFailedStatus: compared with the wrong status constant.
IsFailedStatus_WrongConstant(status) == status = PENDING

\* module.exports, line 49
IsFailedStatus(status) == status = NOT_VERIFIED

\* Mutant of NoFailures: the wrong list is looked at.
NoFailures_WrongList == Len(notDeployedContracts) = 0

\* module.exports, line 69
NoFailures == Len(failedContracts) = 0

\* ------------------------------------------------------------ Init

Init ==
  /\ config \in Configs
  /\ buildDir = NoDir
  /\ mergedSource = <<>>
  /\ pc = "start"
  /\ contractNames = <<>>
  /\ pos = 1
  /\ artifact = NoArtifact
  /\ phase = "none"
  /\ counter = 0
  /\ verStatus = ""
  /\ e = ""
  /\ failedContracts = <<>>
  /\ notDeployedContracts = <<>>
  /\ deployedContracts = <<>>
  /\ result = ""
  /\ requests = <<>>
  /\ outcomes = <<>>

\* ------------------------------------------------------------ module.exports

\* Line 12: parseConfig(config); an enforce that fails ends the process.
ParseConfig ==
  /\ pc = "start"
  /\ IF parseConfig(config) # ""
     THEN pc' = "exit" /\ result' = parseConfig(config)
     ELSE pc' = "names" /\ result' = result
  /\ UNCHANGED <<buildDir, mergedSource, config, contractNames, pos, artifact, phase, counter, verStatus, e,
                 failedContracts, notDeployedContracts, deployedContracts,
                 requests, outcomes>>

\* Lines 14-23: the names to verify; 'all' replaces them by the build directory's.
ResolveNames ==
  /\ pc = "names"
  /\ IF Includes(Slice1(config.args), "all")
     THEN \E dir \in BuildDirs :
            /\ buildDir' = dir
            /\ contractNames' = getAllContractFiles(dir)
     ELSE /\ buildDir' = buildDir
          /\ contractNames' = Slice1(config.args)
  /\ pc' = "loop"
  /\ UNCHANGED <<mergedSource, config, pos, artifact, phase, counter, verStatus, e,
                 failedContracts, notDeployedContracts, deployedContracts, result,
                 requests, outcomes>>

\* Lines 24-40: the next name, its artifact and its deployment record.
GetArtifact ==
  /\ pc = "loop"
  /\ pos <= Len(contractNames)
  /\ \E art \in Artifacts :
       /\ artifact' = art
       /\ IF ~enforceOrThrowError(art.exists)
          THEN /\ Throw(MsgNoArtifact)
               /\ UNCHANGED <<pos, phase, counter, notDeployedContracts, outcomes>>
          ELSE IF ~enforceOrThrowWarn(HasInstance(art))
          THEN /\ notDeployedContracts' = Append(notDeployedContracts, contractNames[pos])
               /\ outcomes' = Append(outcomes, Outcome("NotDeployed", ""))
               /\ pos' = pos + 1
               /\ pc' = "loop"
               /\ UNCHANGED <<phase, counter, e>>
          ELSE /\ pc' = "poll"
               /\ phase' = "precheck"
               /\ counter' = 0
               /\ UNCHANGED <<pos, e, notDeployedContracts, outcomes>>
  /\ requests' = <<>>
  /\ UNCHANGED <<buildDir, mergedSource, config, contractNames, verStatus, failedContracts, deployedContracts,
                 result>>

\* ------------------------------------------------------------ checkVerificationStatus

\* The value checkVerificationStatus returns, handed to its caller.
PollReturn(v) ==
  /\ verStatus' = v
  /\ pc' = IF phase = "precheck" THEN "prechecked" ELSE "returned"

\* Mutant of PollRequest: the first unverified answer ends the loop.
PollRequest_ReturnOnFirst ==
  /\ pc = "poll"
  /\ counter < retries
  /\ \E ans \in StatusAnswers :
       /\ Issue("GET_status", ans)
       /\ IF ans = "error"
          THEN Throw(MsgStatus) /\ UNCHANGED <<counter, verStatus>>
          ELSE IF SourceVerified(ans)
          THEN PollReturn(ALREADY_VERIFIED) /\ UNCHANGED <<counter, e>>
          ELSE PollReturn(NOT_VERIFIED) /\ UNCHANGED <<counter, e>>
  /\ UNCHANGED <<buildDir, mergedSource, config, contractNames, pos, artifact, phase,
                 failedContracts, notDeployedContracts, deployedContracts, result,
                 outcomes>>

\* Mutant of PollRequest: a failed request is tried again after the delay.
PollRequest_RetryOnError ==
  /\ pc = "poll"
  /\ counter < retries
  /\ \E ans \in StatusAnswers :
       /\ Issue("GET_status", ans)
       /\ IF SourceVerified(ans)
          THEN PollReturn(ALREADY_VERIFIED) /\ UNCHANGED <<counter, e>>
          ELSE /\ counter' = counter + 1
               /\ pc' = "delay"
               /\ UNCHANGED <<verStatus, e>>
  /\ UNCHANGED <<buildDir, mergedSource, config, contractNames, pos, artifact, phase,
                 failedContracts, notDeployedContracts, deployedContracts, result,
                 outcomes>>

\* Mutant of PollRequest: a verified answer does not leave the loop.
PollRequest_NoReturn ==
  /\ pc = "poll"
  /\ counter < retries
  /\ \E ans \in StatusAnswers :
       /\ Issue("GET_status", ans)
       /\ IF ans = "error"
          THEN Throw(MsgStatus) /\ UNCHANGED <<counter, verStatus>>
          ELSE /\ counter' = counter + 1
               /\ pc' = "delay"
               /\ UNCHANGED <<verStatus, e>>
  /\ UNCHANGED <<buildDir, mergedSource, config, contractNames, pos, artifact, phase,
                 failedContracts, notDeployedContracts, deployedContracts, result,
                 outcomes>>

\* Lines 212-226: one turn of the loop: the GET and what its answer leads to.
PollRequest ==
  /\ pc = "poll"
  /\ counter < retries
  /\ \E ans \in StatusAnswers :
       /\ Issue("GET_status", ans)
       /\ IF ans = "error"
          THEN Throw(MsgStatus) /\ UNCHANGED <<counter, verStatus>>
          ELSE IF SourceVerified(ans)
          THEN PollReturn(ALREADY_VERIFIED) /\ UNCHANGED <<counter, e>>
          ELSE /\ counter' = counter + 1
               /\ pc' = "delay"
               /\ UNCHANGED <<verStatus, e>>
  /\ UNCHANGED <<buildDir, mergedSource, config, contractNames, pos, artifact, phase,
                 failedContracts, notDeployedContracts, deployedContracts, result,
                 outcomes>>

\* Line 227: await delay(1000)
Delay ==
  /\ pc = "delay"
  /\ Issue("delay", "")
  /\ pc' = "poll"
  /\ UNCHANGED <<buildDir, mergedSource, config, contractNames, pos, artifact, phase, counter, verStatus, e,
                 failedContracts, notDeployedContracts, deployedContracts, result,
                 outcomes>>

\* Lines 212, 229-230: the loop condition fails.
PollExhausted ==
  /\ pc = "poll"
  /\ ~(counter < retries)
  /\ PollReturn(NOT_VERIFIED)
  /\ UNCHANGED <<buildDir, mergedSource, config, contractNames, pos, artifact, phase, counter, e,
                 failedContracts, notDeployedContracts, deployedContracts, result,
                 requests, outcomes>>

\* Lines 42-48 and 123-126: after the existing-verification check.
AfterPrecheck ==
  /\ pc = "prechecked"
  /\ IF IsAlreadyVerified(verStatus)
     THEN NextContract("AlreadyVerified", "") /\ UNCHANGED <<e, phase>>
     ELSE IF ~enforceOrThrowError(HasNetworkEntry(artifact))
     THEN Throw(MsgNoInstance) /\ UNCHANGED <<pos, outcomes, phase>>
     ELSE /\ pc' = "txlist"
          /\ phase' = "submit"
          /\ UNCHANGED <<pos, outcomes, e>>
  /\ UNCHANGED <<buildDir, mergedSource, config, contractNames, artifact, counter, verStatus,
                 failedContracts, notDeployedContracts, deployedContracts, result,
                 requests>>

\* ------------------------------------------------------------ sendVerifyRequest

\* Lines 178-191: the txlist GET and the constructor arguments cut from it.
FetchConstructorValues ==
  /\ pc = "txlist"
  /\ \E ans \in TxAnswers :
       /\ Issue("GET_txlist", ans)
       /\ IF ans = "reject" THEN Throw(MsgTxReject)
          ELSE IF ~enforceOrThrowError(TxOk(ans)) THEN Throw(MsgTxKo)
          ELSE IF ans = "okEmpty" THEN Throw(MsgTypeError)
          ELSE pc' = "merge" /\ e' = e
  /\ UNCHANGED <<buildDir, mergedSource, config, contractNames, pos, artifact, phase, counter, verStatus,
                 failedContracts, notDeployedContracts, deployedContracts, result,
                 outcomes>>

\* Lines 193-206: the source file must exist; it is merged and the preamble
\* is put in front of it.
FetchMergedSource ==
  /\ pc = "merge"
  /\ \E sourceExists \in BOOLEAN :
       IF ~enforceOrThrowError(sourceExists)
       THEN Throw(MsgNoSource) /\ UNCHANGED mergedSource
       ELSE /\ mergedSource' = fetchMergedSource(config.preamble)
            /\ pc' = "proxy"
            /\ e' = e
  /\ UNCHANGED <<buildDir, config, contractNames, pos, artifact, phase, counter, verStatus,
                 failedContracts, notDeployedContracts, deployedContracts, result,
                 requests, outcomes>>

\* Lines 144, 233-240: the registry lookup; a failure is answered by false.
GetProxyAddress ==
  /\ pc = "proxy"
  /\ \E found \in BOOLEAN :
       Issue("RPC_registry", IF found THEN "address" ELSE "false")
  /\ pc' = "link"
  /\ UNCHANGED <<buildDir, mergedSource, config, contractNames, pos, artifact, phase, counter, verStatus, e,
                 failedContracts, notDeployedContracts, deployedContracts, result,
                 outcomes>>

\* Lines 162-167: every library of the links map is checked against the limit.
LinkLibraries ==
  /\ pc = "link"
  /\ IF \E i \in 0..(artifact.links - 1) : ~enforceOrThrowError(LinkAllowed(i))
     THEN Throw(MsgLibraries)
     ELSE pc' = "post" /\ e' = e
  /\ UNCHANGED <<buildDir, mergedSource, config, contractNames, pos, artifact, phase, counter, verStatus,
                 failedContracts, notDeployedContracts, deployedContracts, result,
                 requests, outcomes>>

\* Mutant of PostVerify: a rejected POST is sent again.
PostVerify_RetryOnReject ==
  /\ pc = "post"
  /\ \E ans \in PostAnswers :
       /\ requests' = Append(requests, Request("POST", ans.kind, ans.status, ans.result))
       /\ IF ans.kind = "reject"
          THEN pc' = "post" /\ UNCHANGED <<phase, counter, verStatus, e>>
          ELSE IF ~enforceOrThrowError(ans.kind = "data")
          THEN Throw(MsgConnect) /\ UNCHANGED <<phase, counter, verStatus>>
          ELSE IF ans.result = ALREADY_VERIFIED
          THEN /\ verStatus' = ALREADY_VERIFIED
               /\ pc' = "returned"
               /\ UNCHANGED <<phase, counter, e>>
          ELSE IF ~enforceOrThrowError(StatusOk(ans))
          THEN Throw(ans.result) /\ UNCHANGED <<phase, counter, verStatus>>
          ELSE /\ pc' = "poll"
               /\ phase' = "confirm"
               /\ counter' = 0
               /\ UNCHANGED <<verStatus, e>>
  /\ UNCHANGED <<buildDir, mergedSource, config, contractNames, pos, artifact,
                 failedContracts, notDeployedContracts, deployedContracts, result,
                 outcomes>>

\* Lines 169-175 and 128-137: the POST and what verifyContract makes of its
\* answer.  The promise of axios.post is returned without await, so a
\* rejection passes the try block of sendVerifyRequest and reaches the caller
\* as the transport's own error.
PostVerify ==
  /\ pc = "post"
  /\ \E ans \in PostAnswers :
       /\ requests' = Append(requests, Request("POST", ans.kind, ans.status, ans.result))
       /\ IF ans.kind = "reject"
          THEN Throw(MsgTransport) /\ UNCHANGED <<phase, counter, verStatus>>
          ELSE IF ~enforceOrThrowError(ans.kind = "data")
          THEN Throw(MsgConnect) /\ UNCHANGED <<phase, counter, verStatus>>
          ELSE IF ans.result = ALREADY_VERIFIED
          THEN /\ verStatus' = ALREADY_VERIFIED
               /\ pc' = "returned"
               /\ UNCHANGED <<phase, counter, e>>
          ELSE IF ~enforceOrThrowError(StatusOk(ans))
          THEN Throw(ans.result) /\ UNCHANGED <<phase, counter, verStatus>>
          ELSE /\ pc' = "poll"
               /\ phase' = "confirm"
               /\ counter' = 0
               /\ UNCHANGED <<verStatus, e>>
  /\ UNCHANGED <<buildDir, mergedSource, config, contractNames, pos, artifact,
                 failedContracts, notDeployedContracts, deployedContracts, result,
                 outcomes>>

\* ------------------------------------------------------------ module.exports, the end of the loop body

\* Mutant of Classify: the else is missing, a failed contract is also counted verified.
Classify_NoElse ==
  /\ pc = "returned"
  /\ IF IsFailedStatus(verStatus)
     THEN /\ failedContracts' = Append(failedContracts, contractNames[pos])
          /\ NextContract("Failed", verStatus)
     ELSE /\ NextContract("Success", "")
          /\ UNCHANGED failedContracts
  /\ deployedContracts' = Append(deployedContracts, contractNames[pos])
  /\ UNCHANGED <<buildDir, mergedSource, config, contractNames, artifact, phase, counter, verStatus, e,
                 notDeployedContracts, result, requests>>

\* Lines 48-56: the status verifyContract returned decides the list.
Classify ==
  /\ pc = "returned"
  /\ IF IsFailedStatus(verStatus)
     THEN /\ failedContracts' = Append(failedContracts, contractNames[pos])
          /\ NextContract("Failed", verStatus)
          /\ UNCHANGED deployedContracts
     ELSE /\ deployedContracts' = Append(deployedContracts, contractNames[pos])
          /\ NextContract("Success", "")
          /\ UNCHANGED failedContracts
  /\ UNCHANGED <<buildDir, mergedSource, config, contractNames, artifact, phase, counter, verStatus, e,
                 notDeployedContracts, result, requests>>

\* Mutant of Catch: the error is thrown on and ends the invocation.
Catch_Rethrow ==
  /\ pc = "catch"
  /\ pc' = "done"
  /\ result' = e
  /\ UNCHANGED <<buildDir, mergedSource, config, contractNames, pos, artifact, phase, counter, verStatus, e,
                 failedContracts, notDeployedContracts, deployedContracts,
                 requests, outcomes>>

\* Lines 58-61: the catch of the loop body.
Catch ==
  /\ pc = "catch"
  /\ failedContracts' = Append(failedContracts, contractNames[pos])
  /\ NextContract("Failed", e)
  /\ UNCHANGED <<buildDir, mergedSource, config, contractNames, artifact, phase, counter, verStatus, e,
                 notDeployedContracts, deployedContracts, result, requests>>

\* Lines 65-71: the summary; the invocation throws when a contract failed.
Summary ==
  /\ pc = "loop"
  /\ pos > Len(contractNames)
  /\ result' = IF enforceOrThrowError(NoFailures) THEN "ok" ELSE MsgFailedSome
  /\ pc' = "done"
  /\ UNCHANGED <<buildDir, mergedSource, config, contractNames, pos, artifact, phase, counter, verStatus, e,
                 failedContracts, notDeployedContracts, deployedContracts,
                 requests, outcomes>>

Next ==
  \/ ParseConfig
  \/ ResolveNames
  \/ GetArtifact
  \/ PollRequest
  \/ Delay
  \/ PollExhausted
  \/ AfterPrecheck
  \/ FetchConstructorValues
  \/ FetchMergedSource
  \/ GetProxyAddress
  \/ LinkLibraries
  \/ PostVerify
  \/ Classify
  \/ Catch
  \/ Summary

Spec == Init /\ [][Next]_vars

\* ------------------------------------------------------------ fetchMergedSource on its own

\* fetchMergedSource for every preamble text up to MaxPreamble characters:
\* the invocation stands before the merge of its first contract.
PreambleInit ==
  /\ config \in [blockscoutUrl : {TRUE}, args : {<<"verify", "A">>}, preamble : Preambles]
  /\ buildDir = NoDir
  /\ mergedSource = <<>>
  /\ pc = "merge"
  /\ contractNames = <<"A">>
  /\ pos = 1
  /\ artifact = [exists |-> TRUE, network |-> "deployed", links |-> 0]
  /\ phase = "submit"
  /\ counter = retries
  /\ verStatus = NOT_VERIFIED
  /\ e = ""
  /\ failedContracts = <<>>
  /\ notDeployedContracts = <<>>
  /\ deployedContracts = <<>>
  /\ result = ""
  /\ requests = <<>>
  /\ outcomes = <<>>

PreambleNext == FetchMergedSource

PreambleSpec == PreambleInit /\ [][PreambleNext]_vars

\* ------------------------------------------------------------ vocabulary of the properties

\* An entry has just been classified (or the run is over): artifact, requests
\* and the last element of outcomes are those of the entry processed last.
Finished == pc \in {"loop", "done"} /\ Len(outcomes) > 0

LastOutcome == outcomes[Len(outcomes)]

\* The names of the processed entries that ended in the given way, in order.
NamesWith(kind) ==
  LET sel == SelectSeq(outcomes, LAMBDA o : o.outcome = kind)
  IN [i \in 1..Len(sel) |-> sel[i].name]

\* The requests sent to the explorer over HTTP.
HttpKinds == {"GET_status", "GET_txlist", "POST"}

\* Positions in requests of the requests of a kind issued in a phase.
Reqs(kind, ph) ==
  {i \in 1..Len(requests) : requests[i].kind = kind /\ requests[i].phase = ph}

Posts == {i \in 1..Len(requests) : requests[i].kind = "POST"}

\* ------------------------------------------------------------ C1

\* C1: a contract whose artifact has no deployment record for the network id
\* (no entry, or an entry without address) ends NotDeployed: its name is the
\* one just added to the not-deployed list, the failed and verified lists hold
\* exactly the names of the entries that ended Failed and Success (so not this
\* entry), and no request of any kind was issued for it.
C1_NotDeployedSkipped ==
  (Finished /\ artifact.exists /\ artifact.network # "deployed") =>
     /\ LastOutcome.outcome = "NotDeployed"
     /\ requests = <<>>
     /\ notDeployedContracts = NamesWith("NotDeployed")
     /\ failedContracts = NamesWith("Failed")
     /\ deployedContracts = NamesWith("Success")

\* A second entry, whose networks entry has no address, was skipped after a
\* first entry that did go to the explorer.
C1_Witness ==
  /\ Finished
  /\ Len(outcomes) = 2
  /\ outcomes[1].outcome = "Success"
  /\ artifact.exists /\ artifact.network = "noaddress"
  /\ LastOutcome.outcome = "NotDeployed"
  /\ notDeployedContracts = <<contractNames[2]>>

\* ------------------------------------------------------------ C2

\* C2: once a GET of the existing-verification check has reported verified
\* source, everything issued for the contract is status-check GETs (and the
\* delays between them): no txlist GET, no registry lookup, no POST; and the
\* contract ends AlreadyVerified, in none of the three lists.
C2_AlreadyVerifiedNoPost ==
  (\E i \in Reqs("GET_status", "precheck") : requests[i].answer = "verified") =>
     /\ \A i \in 1..Len(requests) : requests[i].kind \in {"GET_status", "delay"}
     /\ Posts = {}
     /\ pc \in {"prechecked", "loop", "done"}
     /\ pc = "prechecked" => verStatus = ALREADY_VERIFIED
     /\ Finished =>
          /\ LastOutcome.outcome = "AlreadyVerified"
          /\ Len(failedContracts) + Len(notDeployedContracts) + Len(deployedContracts)
               = Len(outcomes) - Len(NamesWith("AlreadyVerified"))

\* The third status check reported verified source and the contract was skipped.
C2_Witness ==
  /\ Finished
  /\ LastOutcome.outcome = "AlreadyVerified"
  /\ Len(requests) = 5
  /\ requests[5].kind = "GET_status" /\ requests[5].answer = "verified"

\* ------------------------------------------------------------ C3

\* C3: when the loop is over, the invocation ends in error exactly when the
\* failed list is not empty, that is exactly when some entry ended Failed; it
\* ends well when every entry ended Success, AlreadyVerified or NotDeployed.
C3_FailsIffFailed ==
  pc = "done" =>
     /\ result \in {"ok", MsgFailedSome}
     /\ (result = MsgFailedSome) <=> (failedContracts # <<>>)
     /\ (result = MsgFailedSome) <=> (\E i \in 1..Len(outcomes) : outcomes[i].outcome = "Failed")
     /\ (result = "ok") <=>
          (\A i \in 1..Len(outcomes) :
              outcomes[i].outcome \in {"Success", "AlreadyVerified", "NotDeployed"})

\* A run ended in error with one verified and one failed contract.
C3_Witness ==
  /\ pc = "done"
  /\ result = MsgFailedSome
  /\ Len(failedContracts) = 1
  /\ Len(deployedContracts) = 1

\* ------------------------------------------------------------ C4

\* C4: the loop takes the names in the order given and takes all of them: the
\* k-th classification is that of the k-th name, an error thrown for an entry
\* is caught and makes that entry Failed with pos moving on, and at the end
\* every name has its classification; the failed list holds the entries that
\* ended Failed and the verified list those that ended Success, whatever
\* came before them.
C4_EveryContractProcessed ==
  /\ pc \notin {"start", "names", "exit"} =>
       /\ Len(outcomes) = pos - 1
       /\ pos <= Len(contractNames) + 1
       /\ \A i \in 1..Len(outcomes) : outcomes[i].name = contractNames[i]
  /\ pc = "catch" => pos <= Len(contractNames) /\ e # ""
  /\ pc = "done" => Len(outcomes) = Len(contractNames)
  /\ failedContracts = NamesWith("Failed")
  /\ deployedContracts = NamesWith("Success")

\* The list [A, B]: A failed on a transport error of its status check, B was
\* verified, and the run ended in error.
C4_Witness ==
  /\ pc = "done"
  /\ contractNames = <<"A", "B">>
  /\ outcomes[1] = [name |-> "A", outcome |-> "Failed", error |-> MsgStatus]
  /\ outcomes[2].outcome = "Success"
  /\ failedContracts = <<"A">>
  /\ deployedContracts = <<"B">>
  /\ result = MsgFailedSome

\* ------------------------------------------------------------ C5

Kinds == {"Success", "AlreadyVerified", "NotDeployed", "Failed"}

\* The names of a list of names.
Range(s) == {s[i] : i \in 1..Len(s)}

Distinct(s) == \A i, j \in 1..Len(s) : i # j => s[i] # s[j]

C6_LimitBeforeAnyHttp ==
  (pc = "catch" /\ e = MsgLibraries) =>
     \A i \in 1..Len(requests) : requests[i].kind \notin HttpKinds

\* C6, amended: no verify POST is ever issued for a contract whose links map
\* has more than 5 entries; once its submission has got as far as the linking
\* step it fails with the library-limit error, and by then the five status
\* checks, the txlist GET and the registry lookup have been made.  A map of
\* 5 entries or fewer never raises the error.
C6_LimitBeforePost ==
  /\ (artifact.network = "deployed" /\ artifact.links > 5
        /\ pc \notin {"start", "names", "exit"}) =>
       /\ Posts = {}
       /\ pc \notin {"post", "returned"}
       /\ (\E i \in 1..Len(requests) : requests[i].kind = "RPC_registry") =>
            /\ pc \in {"link", "catch", "loop", "done"}
            /\ pc = "catch" => e = MsgLibraries
            /\ Finished => LastOutcome.outcome = "Failed" /\ LastOutcome.error = MsgLibraries
  /\ (pc = "catch" /\ e = MsgLibraries) =>
       /\ artifact.links > 5
       /\ Cardinality(Reqs("GET_status", "precheck")) = 5
       /\ Cardinality(Reqs("GET_txlist", "submit")) = 1
       /\ Cardinality(Reqs("RPC_registry", "submit")) = 1

\* A contract with more links than the limit failed on it, after its requests.
C6_Witness ==
  /\ Finished
  /\ artifact.links > 5
  /\ LastOutcome.outcome = "Failed"
  /\ LastOutcome.error = MsgLibraries
  /\ Posts = {}
  /\ Cardinality(Reqs("GET_txlist", "submit")) = 1

\* ------------------------------------------------------------ C7

\* C7: one call of checkVerificationStatus issues at most 5 status requests:
\* while it runs, the requests it has issued number counter or counter + 1 and
\* counter never passes 5; what it hands back is ALREADY_VERIFIED or
\* NOT_VERIFIED, never PENDING, with NOT_VERIFIED only after 5 unverified
\* answers; otherwise it threw the status error on a failed request.
C7_PollBounded ==
  /\ counter \in 0..5
  /\ \A ph \in {"precheck", "confirm"} : Cardinality(Reqs("GET_status", ph)) <= 5
  /\ pc = "poll" => Cardinality(Reqs("GET_status", phase)) = counter
  /\ pc = "delay" => Cardinality(Reqs("GET_status", phase)) = counter
  /\ pc \in {"prechecked", "returned"} =>
       /\ verStatus \in {ALREADY_VERIFIED, NOT_VERIFIED}
       /\ verStatus # PENDING
  /\ (pc = "prechecked" /\ verStatus = NOT_VERIFIED) =>
       /\ Cardinality(Reqs("GET_status", "precheck")) = 5
       /\ \A i \in Reqs("GET_status", "precheck") : requests[i].answer = "unverified"
  /\ (pc = "returned" /\ verStatus = NOT_VERIFIED) =>
       /\ Cardinality(Reqs("GET_status", "confirm")) = 5
       /\ \A i \in Reqs("GET_status", "confirm") : requests[i].answer = "unverified"
  /\ (pc = "catch" /\ e = MsgStatus) =>
       /\ requests[Len(requests)].kind = "GET_status"
       /\ requests[Len(requests)].answer = "error"

\* The confirmation poll gave up after its fifth unverified answer.
C7_Witness ==
  /\ pc = "returned"
  /\ verStatus = NOT_VERIFIED
  /\ Cardinality(Reqs("GET_status", "confirm")) = 5
  /\ Cardinality(Reqs("GET_status", "precheck")) = 5

\* ------------------------------------------------------------ C8

\* The POSTs answered with an envelope whose status is not OK and whose
\* result is not the already-verified message.
RefusedPosts ==
  {i \in Posts : /\ requests[i].answer = "data"
                 /\ requests[i].status # OK
                 /\ requests[i].result # ALREADY_VERIFIED}

\* C8: after a refused POST nothing more is issued for the contract (no
\* confirmation poll), the error thrown carries the result of the answer, and
\* the contract ends Failed with that result as its error, its name the one
\* just added to the failed list.
C8_RefusedPostFails ==
  \A i \in RefusedPosts :
     /\ i = Len(requests)
     /\ Reqs("GET_status", "confirm") = {}
     /\ pc \in {"catch", "loop", "done"}
     /\ pc = "catch" => e = requests[i].result
     /\ Finished =>
          /\ LastOutcome.outcome = "Failed"
          /\ LastOutcome.error = requests[i].result
          /\ failedContracts # <<>>
          /\ failedContracts[Len(failedContracts)] = LastOutcome.name

\* The explorer refused the submission: "Invalid compiler version".
C8_Witness ==
  /\ Finished
  /\ RefusedPosts # {}
  /\ LastOutcome.outcome = "Failed"
  /\ LastOutcome.error = "Invalid compiler version"

\* ------------------------------------------------------------ C9

\* C9: with no explorer URL for the network, or with no contract name, the
\* invocation never gets past parseConfig: it ends there with the message of
\* the failed check, no request issued, no name taken up, no list touched.
\* Nothing else ends the invocation there.
C9_ConfigErrorFatal ==
  /\ (~config.blockscoutUrl \/ Len(config.args) <= 1) =>
       /\ pc \in {"start", "exit"}
       /\ requests = <<>>
       /\ outcomes = <<>>
       /\ contractNames = <<>> /\ pos = 1
       /\ failedContracts = <<>> /\ notDeployedContracts = <<>> /\ deployedContracts = <<>>
       /\ pc = "exit" =>
            result = IF ~config.blockscoutUrl THEN MsgNoSupport ELSE MsgNoNames
  /\ pc = "exit" => (~config.blockscoutUrl \/ Len(config.args) <= 1)

\* Names were given but the network has no explorer: the invocation ended.
C9_Witness ==
  /\ pc = "exit"
  /\ ~config.blockscoutUrl
  /\ Len(config.args) > 1
  /\ result = MsgNoSupport

\* ------------------------------------------------------------ C10

\* The POSTs the explorer accepted: an envelope with status OK.
AcceptedPosts ==
  {i \in Posts : requests[i].answer = "data" /\ requests[i].status = OK}

\* C10: after an accepted POST the requests are confirmation polls and delays
\* in turn, starting with a poll; when a poll reports verified it is the last
\* thing issued for the contract, the polls before it all reported unverified,
\* it is the k-th poll with k <= 5 and k - 1 delays lie between the POST and
\* it, and the contract ends Success, its name the one just added to the
\* verified list.
C10_SuccessAfterKPolls ==
  \A p \in AcceptedPosts :
     /\ \A j \in (p + 1)..Len(requests) :
          /\ requests[j].phase = "confirm"
          /\ requests[j].kind = IF (j - p) % 2 = 1 THEN "GET_status" ELSE "delay"
     /\ \A j \in Reqs("GET_status", "confirm") :
          requests[j].answer = "verified" =>
            LET k == Cardinality(Reqs("GET_status", "confirm"))
            IN /\ j = Len(requests)
               /\ j = p + 2 * k - 1
               /\ k <= 5
               /\ Cardinality(Reqs("delay", "confirm")) = k - 1
               /\ \A i \in Reqs("GET_status", "confirm") \ {j} :
                    requests[i].answer = "unverified"
               /\ pc \in {"returned", "loop", "done"}
               /\ pc = "returned" => verStatus = ALREADY_VERIFIED
               /\ Finished =>
                    /\ LastOutcome.outcome = "Success"
                    /\ deployedContracts # <<>>
                    /\ deployedContracts[Len(deployedContracts)] = LastOutcome.name

\* Two polls reported unverified, the third verified: Success after 3 polls.
C10_Witness ==
  /\ Finished
  /\ LastOutcome.outcome = "Success"
  /\ AcceptedPosts # {}
  /\ Cardinality(Reqs("GET_status", "confirm")) = 3
  /\ Cardinality(Reqs("delay", "confirm")) = 2
  /\ requests[Len(requests)].answer = "verified"

\* ------------------------------------------------------------ C11

\* The names of the files with the artifact extension at any depth below a
\* list of directory entries.
RECURSIVE AllArtifactNames(_)
AllArtifactNames(files) ==
  IF files = <<>> THEN {}
  ELSE LET f == Head(files)
       IN (IF f.isDir THEN AllArtifactNames(f.children)
           ELSE IF f.ext = ".json" THEN {f.name} ELSE {})
            \cup AllArtifactNames(Tail(files))

\* C11: when 'all' is requested the names the loop goes over are the names of
\* all the artifact files below the build directory, at any depth.
C11_AllNamesRecursive ==
  (pc \in {"loop", "done"} /\ Includes(Slice1(config.args), "all") /\ buildDir.exists) =>
     Range(contractNames) = AllArtifactNames(buildDir.files)

\* ------------------------------------------------------------ C12

\* The positions of a text where a comment terminator starts.
Terminators(s) == {i \in 1..(Len(s) - 1) : s[i] = "*" /\ s[i + 1] = "/"}

\* s is t with some characters left out.
RECURSIVE IsSubsequence(_, _)
IsSubsequence(s, t) ==
  IF s = <<>> THEN TRUE
  ELSE IF t = <<>> THEN FALSE
  ELSE IF Head(s) = Head(t) THEN IsSubsequence(Tail(s), Tail(t))
  ELSE IsSubsequence(s, Tail(t))

\* The preamble as it stands in the merged source, between the opening and
\* the closing of the block.
EmbeddedPreamble ==
  SubSeq(mergedSource, Len(PreambleOpen) + 1,
         Len(mergedSource) - Len(PreambleClose) - Len(MergedFile))

\* C12: with a preamble configured, the merged source is the opening of the
\* block, the preamble with characters left out, the closing and the merged
\* file; the embedded preamble holds no comment terminator, every character
\* that is neither star nor slash is kept, and the first terminator of the
\* whole text is the one that closes the block.
C12_PreambleHasNoTerminator ==
  (pc = "proxy" /\ config.preamble # <<>>) =>
     /\ SubSeq(mergedSource, 1, Len(PreambleOpen)) = PreambleOpen
     /\ mergedSource = PreambleOpen \o EmbeddedPreamble \o PreambleClose \o MergedFile
     /\ Terminators(EmbeddedPreamble) = {}
     /\ IsSubsequence(EmbeddedPreamble, config.preamble)
     /\ SelectSeq(EmbeddedPreamble, LAMBDA c : c = "a")
          = SelectSeq(config.preamble, LAMBDA c : c = "a")
     /\ \A i \in Terminators(mergedSource) :
          i >= Len(PreambleOpen) + Len(EmbeddedPreamble) + 2

\* The preamble **// : the run of stars goes with its slash, a slash stays.
C12_Witness ==
  /\ pc = "proxy"
  /\ config.preamble = <<"*", "*", "/", "/">>
  /\ EmbeddedPreamble = <<"/">>

\* ------------------------------------------------------------ C13

\* C13: when the verify POST is rejected by the transport, the error thrown
\* for the contract, and recorded with its Failed outcome, is the wrapped
\* connectivity error.
C13_PostRejectionWrapped ==
  \A i \in Posts :
     requests[i].answer = "reject" =>
       /\ pc = "catch" => e = MsgConnect
       /\ Finished => LastOutcome.outcome = "Failed" /\ LastOutcome.error = MsgConnect

\* ------------------------------------------------------------ C14

\* The status requests that failed.
FailedPolls ==
  {i \in 1..Len(requests) : requests[i].kind = "GET_status" /\ requests[i].answer = "error"}

\* C14: a status request that fails, in the existing-verification check or in
\* the confirmation, is the last thing issued for the contract: the status
\* error is thrown, nothing is tried again, and the contract ends Failed with
\* that error, its name the one just added to the failed list.
C14_PollErrorEndsContract ==
  \A i \in FailedPolls :
     /\ i = Len(requests)
     /\ pc \in {"catch", "loop", "done"}
     /\ pc = "catch" => e = MsgStatus
     /\ Finished =>
          /\ LastOutcome.outcome = "Failed"
          /\ LastOutcome.error = MsgStatus
          /\ failedContracts # <<>>
          /\ failedContracts[Len(failedContracts)] = LastOutcome.name

\* The second confirmation poll failed, with three attempts left; the
\* contract is Failed.
C14_Witness ==
  /\ Finished
  /\ LastOutcome.outcome = "Failed"
  /\ LastOutcome.error = MsgStatus
  /\ Cardinality(Reqs("GET_status", "confirm")) = 2
  /\ FailedPolls = {Len(requests)}

\* ------------------------------------------------------------ C15

\* The POSTs answered with the already-verified message.
AlreadyVerifiedPosts ==
  {i \in Posts : requests[i].answer = "data" /\ requests[i].result = ALREADY_VERIFIED}

\* C15 as stated: a contract whose POST was answered OK or with the
\* already-verified message has had a confirmation poll by the time it is
\* classified.
C15_AcceptedThenPolled ==
  (Finished /\ (AcceptedPosts \cup AlreadyVerifiedPosts) # {}) =>
     Reqs("GET_status", "confirm") # {}

\* C15, amended: after a POST answered OK with another result than the
\* already-verified message the confirmation poll is entered, and the
\* contract has had at least one confirmation poll by the time
\* verifyContract returns, throws or the contract is classified; after a POST
\* answered with the already-verified message verifyContract returns
\* ALREADY_VERIFIED at once: no confirmation poll, the contract ends Success.
C15_OkThenPolled ==
  /\ \A p \in AcceptedPosts \ AlreadyVerifiedPosts :
       /\ pc \in {"poll", "delay", "returned", "catch", "loop", "done"}
       /\ pc \in {"poll", "delay"} => phase = "confirm"
       /\ pc \in {"returned", "catch", "loop", "done"} =>
            Reqs("GET_status", "confirm") # {}
  /\ \A p \in AlreadyVerifiedPosts :
       /\ p = Len(requests)
       /\ Reqs("GET_status", "confirm") = {}
       /\ pc \in {"returned", "loop", "done"}
       /\ pc = "returned" => verStatus = ALREADY_VERIFIED
       /\ Finished => LastOutcome.outcome = "Success"

\* A POST answered OK, one confirmation poll, Success.
C15_Witness ==
  /\ Finished
  /\ AcceptedPosts \ AlreadyVerifiedPosts # {}
  /\ Cardinality(Reqs("GET_status", "confirm")) = 1
  /\ LastOutcome.outcome = "Success"

\* ------------------------------------------------------------ C16

\* All 5 confirmation polls were made and each reported unverified.
ConfirmationExhausted ==
  /\ Cardinality(Reqs("GET_status", "confirm")) = 5
  /\ \A i \in Reqs("GET_status", "confirm") : requests[i].answer = "unverified"
  /\ pc \notin {"poll", "delay"}

\* C16: after 5 unverified confirmation polls verifyContract returns
\* NOT_VERIFIED and the contract ends Failed: its name is the one just added
\* to the failed list, the verified list holds only the entries that ended
\* Success, and a run with such a contract ends in error.
C16_StillUnverifiedFails ==
  /\ ConfirmationExhausted =>
       /\ AcceptedPosts # {}
       /\ pc \in {"returned", "loop", "done"}
       /\ pc = "returned" => verStatus = NOT_VERIFIED
       /\ Finished =>
            /\ LastOutcome.outcome = "Failed"
            /\ LastOutcome.error = NOT_VERIFIED
            /\ failedContracts # <<>>
            /\ failedContracts[Len(failedContracts)] = LastOutcome.name
            /\ deployedContracts = NamesWith("Success")
  /\ (pc = "done" /\ \E i \in 1..Len(outcomes) :
         outcomes[i].outcome = "Failed" /\ outcomes[i].error = NOT_VERIFIED) =>
       result = MsgFailedSome

\* The run is over; its last contract was polled 5 times in vain.
C16_Witness ==
  /\ pc = "done"
  /\ ConfirmationExhausted
  /\ LastOutcome.outcome = "Failed"
  /\ result = MsgFailedSome

\* ------------------------------------------------------------ C17

\* A turn of the loop is under way: an entry has been taken up and is not
\* classified yet.
InTurn == pc \notin {"start", "names", "exit", "loop", "done"}

\* C17: while a turn is under way every earlier entry, and no other, has its
\* classification, and everything issued in the turn is for the entry of the
\* turn; between turns and at the end what was issued last is for the entry
\* classified last.  So nothing is issued for entry i + 1 before entry i is
\* classified, and nothing for an entry once it is classified.
C17_OneContractAtATime ==
  /\ InTurn =>
       /\ pos <= Len(contractNames)
       /\ Len(outcomes) = pos - 1
       /\ \A i \in 1..Len(requests) : requests[i].entry = pos
  /\ pc \in {"loop", "done"} =>
       /\ Len(outcomes) = pos - 1
       /\ \A i \in 1..Len(requests) : requests[i].entry = pos - 1
  /\ pc = "done" => pos = Len(contractNames) + 1

\* The second entry is being polled after its POST; the first one ended
\* Success.
C17_Witness ==
  /\ pc = "delay"
  /\ pos = 2
  /\ phase = "confirm"
  /\ outcomes = <<[name |-> contractNames[1], outcome |-> "Success", error |-> ""]>>
  /\ Len(requests) > 12
  /\ requests[Len(requests)].entry = 2

\* ------------------------------------------------------------ C18

\* The txlist GETs that were rejected or answered with a status other than OK.
FailedLookups ==
  {i \in 1..Len(requests) :
     requests[i].kind = "GET_txlist" /\ requests[i].answer \in {"reject", "ko"}}

\* C18: a failed constructor lookup is the last thing issued for the
\* contract: no POST is made, the error thrown is that of the lookup, and the
\* contract ends Failed with it, its name the one just added to the failed
\* list.
C18_LookupFailureNoPost ==
  \A i \in FailedLookups :
     LET msg == IF requests[i].answer = "reject" THEN MsgTxReject ELSE MsgTxKo
     IN /\ i = Len(requests)
        /\ Posts = {}
        /\ pc \in {"catch", "loop", "done"}
        /\ pc = "catch" => e = msg
        /\ Finished =>
             /\ LastOutcome.outcome = "Failed"
             /\ LastOutcome.error = msg
             /\ failedContracts # <<>>
             /\ failedContracts[Len(failedContracts)] = LastOutcome.name

\* The lookup was answered with a status that is not OK; the contract is Failed.
C18_Witness ==
  /\ Finished
  /\ FailedLookups # {}
  /\ requests[Len(requests)].answer = "ko"
  /\ LastOutcome.outcome = "Failed"
  /\ LastOutcome.error = MsgTxKo

\* ------------------------------------------------------------ C19

\* The submission of the contract of the turn has begun.
SubmissionBegun ==
  \/ pc \in {"txlist", "merge", "proxy", "link", "post"}
  \/ \E i \in 1..Len(requests) : requests[i].kind \in {"GET_txlist", "RPC_registry", "POST"}

\* C19: the submission begins only after 5 status checks in a row, each
\* answered unverified and each followed by its delay: they are the first 10
\* things issued for the contract, and the txlist GET, when issued, is the
\* 11th.
C19_SubmitAfterFivePrechecks ==
  /\ SubmissionBegun =>
       /\ Cardinality(Reqs("GET_status", "precheck")) = 5
       /\ Len(requests) >= 10
       /\ \A j \in 1..10 :
            /\ requests[j].phase = "precheck"
            /\ requests[j].kind = IF j % 2 = 1 THEN "GET_status" ELSE "delay"
            /\ j % 2 = 1 => requests[j].answer = "unverified"
       /\ \A i \in 1..Len(requests) :
            requests[i].kind \in {"GET_txlist", "POST"} => i > 10
  /\ (pc = "prechecked" /\ verStatus # ALREADY_VERIFIED) =>
       Cardinality(Reqs("GET_status", "precheck")) = 5

\* The POST went out, after the five checks and the lookup.
C19_Witness ==
  /\ Posts # {}
  /\ requests[9].kind = "GET_status" /\ requests[9].answer = "unverified"
  /\ requests[11].kind = "GET_txlist"

\* ------------------------------------------------------------ C20

\* C20: in the turn of an entry at most one POST is issued: once it is out the
\* invocation is never again at a step before the POST in that turn, whatever
\* the answer was, and the POST is for the entry of the turn.
C20_AtMostOnePost ==
  /\ Cardinality(Posts) <= 1
  /\ Posts # {} =>
       /\ pc \in {"poll", "delay", "returned", "catch", "loop", "done"}
       /\ pc \in {"poll", "delay"} => phase = "confirm"
       /\ \A p \in Posts : requests[p].entry = IF InTurn THEN pos ELSE pos - 1

\* The POST was rejected and the contract is Failed: one POST, no second try.
C20_Witness ==
  /\ Finished
  /\ Cardinality(Posts) = 1
  /\ requests[Len(requests)].kind = "POST"
  /\ requests[Len(requests)].answer = "reject"
  /\ LastOutcome.outcome = "Failed"

====
